---- MODULE Spec2Model ----
(***************************************************************************)
(* Model of app.py: a single-file Flask relay.  Module import reads the    *)
(* environment, refuses to load without OPENAI_API_KEY, builds the client  *)
(* and the model identifier; POST /api/chat coerces the JSON body, maps    *)
(* the style value to a system prompt and decoding parameters, calls the   *)
(* completion capability once and answers with JSON.                       *)
(*                                                                         *)
(* Conventions.  Python values are tagged records [t, n, s]: t the type,   *)
(* n the number (floats in tenths), s the characters of a string.          *)
(* Temperatures are kept in hundredths (0.20 is 20), the intermediate      *)
(* float of decoding_params in thousandths.                                *)
(***************************************************************************)
EXTENDS Integers, Sequences, FiniteSets

\* ---------------------------------------------------------------- bounds
\* style integers sent by clients range over (0 - StyleBelow)..(10 + StyleAbove)
StyleBelow == 1
StyleAbove == 1
\* integers handed directly to the parameter mapper: (0 - MapperSpan)..(10 + MapperSpan)
MapperSpan == 10

\* ---------------------------------------------------------- Python values
None == [t |-> "none", n |-> 0, s |-> <<>>]
PyInt(k) == [t |-> "int", n |-> k, s |-> <<>>]
PyFloat(tenths) == [t |-> "float", n |-> tenths, s |-> <<>>]
PyBool(b) == [t |-> "bool", n |-> IF b THEN 1 ELSE 0, s |-> <<>>]
PyStr(chars) == [t |-> "str", n |-> 0, s |-> chars]
\* a JSON array; n is its length
PyList(len) == [t |-> "list", n |-> len, s |-> <<>>]

\* Python truthiness, as used by `x or default`
Truthy(v) ==
    CASE v.t = "none" -> FALSE
      [] v.t = "str" -> Len(v.s) > 0
      [] OTHER -> v.n # 0

\* `x or default`
Or(v, default) == IF Truthy(v) THEN v ELSE default

IsSpace(c) == c = " "

RECURSIVE LStrip(_)
LStrip(s) == IF s # <<>> /\ IsSpace(Head(s)) THEN LStrip(Tail(s)) ELSE s

RECURSIVE RStrip(_)
RStrip(s) ==
    IF s # <<>> /\ IsSpace(s[Len(s)]) THEN RStrip(SubSeq(s, 1, Len(s) - 1)) ELSE s

\* str.strip()
Strip(s) == RStrip(LStrip(s))

Digits == {"0", "1", "2", "3", "4", "5", "6", "7", "8", "9"}

DigitVal(c) ==
    CASE c = "0" -> 0 [] c = "1" -> 1 [] c = "2" -> 2 [] c = "3" -> 3
      [] c = "4" -> 4 [] c = "5" -> 5 [] c = "6" -> 6 [] c = "7" -> 7
      [] c = "8" -> 8 [] c = "9" -> 9

RECURSIVE DigitsVal(_)
DigitsVal(s) ==
    IF s = <<>> THEN 0 ELSE 10 * DigitsVal(SubSeq(s, 1, Len(s) - 1)) + DigitVal(s[Len(s)])

AllDigits(s) == s # <<>> /\ \A i \in 1..Len(s) : s[i] \in Digits

\* int(<str>): surrounding whitespace, an optional sign, decimal digits
StrIsInt(s) ==
    LET u == Strip(s)
    IN  IF u # <<>> /\ Head(u) \in {"-", "+"} THEN AllDigits(Tail(u)) ELSE AllDigits(u)

StrToInt(s) ==
    LET u == Strip(s)
    IN  IF Head(u) = "-" THEN 0 - DigitsVal(Tail(u))
        ELSE IF Head(u) = "+" THEN DigitsVal(Tail(u))
        ELSE DigitsVal(u)

\* int(<float>) truncates toward zero; floats are kept in tenths
Trunc(tenths) == IF tenths >= 0 THEN tenths \div 10 ELSE 0 - ((0 - tenths) \div 10)

\* int(v): [exc |-> name of the exception raised or "none", val |-> the integer]
PyIntOf(v) ==
    CASE v.t \in {"int", "bool"} -> [exc |-> "none", val |-> v.n]
      [] v.t = "float" -> [exc |-> "none", val |-> Trunc(v.n)]
      [] v.t = "str" -> IF StrIsInt(v.s) THEN [exc |-> "none", val |-> StrToInt(v.s)]
                        ELSE [exc |-> "ValueError", val |-> 0]
      [] OTHER -> [exc |-> "TypeError", val |-> 0]

Min(a, b) == IF a < b THEN a ELSE b
Max(a, b) == IF a > b THEN a ELSE b

\* ------------------------------------------------------- parameter mapper
\* tone_table of build_system_prompt; the texts are abbreviated in English
tone_table ==
    [k \in 0..10 |->
        CASE k = 0 -> "fully neutral, professional, no aggression"
          [] k = 1 -> "extremely tactful, avoids negative emotion"
          [] k = 2 -> "polite and restrained, states position clearly"
          [] k = 3 -> "somewhat blunt, light teasing, no personal attack"
          [] k = 4 -> "directly expresses dissatisfaction, still respectful"
          [] k = 5 -> "moderately sharp, names the problem, concrete demands"
          [] k = 6 -> "not very polite, barbed but rational"
          [] k = 7 -> "clearly displeased, forceful, mild profanity allowed"
          [] k = 8 -> "very forceful, short profanity allowed, not vulgar"
          [] k = 9 -> "extremely sharp, clear profanity allowed, no personal degradation"
          [] k = 10 -> "maximum intensity, coarse language, no hate/discrimination/incitement"]

guardrails ==
    "always avoid hate speech, discrimination, attacks on vulnerable groups, illegal or violent incitement; profanity and strong non-hateful tone allowed"

PREAMBLE == "you are a Chinese assistant that adjusts tone intensity on request"
OUTPUT_FORMAT == "answer in Traditional Chinese; concise, direct, actionable drafts"

\* tone_table.get(k, tone_table[5]): the text, and whether the default was used
ToneGet(k) ==
    IF k \in DOMAIN tone_table
    THEN [text |-> tone_table[k], fallback |-> FALSE]
    ELSE [text |-> tone_table[5], fallback |-> TRUE]

\* the f-string of build_system_prompt, one field per interpolated part
PromptOf(k) ==
    [preamble |-> PREAMBLE, intensity |-> k, tone |-> ToneGet(k).text,
     guardrails |-> guardrails, format |-> OUTPUT_FORMAT]

\* build_system_prompt with the clamp left out
BuildPromptUnclamped(style_intensity) ==
    [ret |-> PromptOf(style_intensity), fallback |-> ToneGet(style_intensity).fallback]

\* one run of build_system_prompt: the string returned and whether the
\* tone lookup fell back to entry 5
BuildPromptRun(style_intensity) ==
    LET k == Max(0, Min(10, style_intensity))
    IN  [ret |-> PromptOf(k), fallback |-> ToneGet(k).fallback]

build_system_prompt(style_intensity) == BuildPromptRun(style_intensity).ret

\* round(x, 2) of a value held in thousandths, giving hundredths
Round2(milli) == (milli + 5) \div 10

\* decoding_params with the temperature computed from the raw value
decoding_params_unclamped(style_intensity) ==
    [temperature |-> Round2(200 + (style_intensity * 100 * 8) \div 10),
     max_tokens |-> IF style_intensity <= 5 THEN 256 ELSE 512]

decoding_params(style_intensity) ==
    LET \* (max(0, min(10, style_intensity)) / 10) in thousandths
        frac == Max(0, Min(10, style_intensity)) * 100
        \* 0.2 + frac * 0.8 in thousandths
        temp == 200 + (frac * 8) \div 10
        max_tokens == IF style_intensity <= 5 THEN 256 ELSE 512
    IN  [temperature |-> Round2(temp), max_tokens |-> max_tokens]

\* ------------------------------------------------------------ environment
\* os.getenv(name): unset, or a string
EnvUnset == [set |-> FALSE, val |-> ""]
EnvStr(v) == [set |-> TRUE, val |-> v]

\* the environments the process may be started in (after load_dotenv)
Environments ==
    [OPENAI_API_KEY : {EnvUnset, EnvStr(""), EnvStr("sk-test")},
     OPENAI_MODEL : {EnvUnset, EnvStr("gpt-4.1")}]

\* os.getenv(name, default)
GetEnv(e, default) == IF e.set THEN e.val ELSE default

\* `not api_key` with an empty string accepted as a key
KeyMissingOnlyIfUnset(k) == ~k.set

\* `not api_key`: None or the empty string
KeyMissing(k) == ~k.set \/ k.val = ""

NoClient == [made |-> FALSE, api_key |-> ""]

\* ------------------------------------------------------------ request data
\* a key that the JSON object does not hold
Absent == [t |-> "absent", n |-> 0, s |-> <<>>]

StyleInts == (0 - StyleBelow)..(10 + StyleAbove)

MessageValues ==
    {Absent, None, PyInt(5)}
    \cup {PyStr(<<>>), PyStr(<<" ">>), PyStr(<<"h", "i">>), PyStr(<<" ", "h", "i", " ">>)}

StyleValues ==
    {Absent, None, PyBool(TRUE), PyList(1), PyFloat(37)}
    \cup {PyInt(k) : k \in StyleInts}
    \cup {PyStr(<<>>), PyStr(<<"7">>), PyStr(<<"a", "b", "c">>)}

\* request bodies: bytes that are no JSON, a JSON value that is no object,
\* or an object holding "message" and "style" (either possibly absent)
Bodies ==
    {[kind |-> "malformed", val |-> Absent, message |-> Absent, style |-> Absent]}
    \cup {[kind |-> "value", val |-> v, message |-> Absent, style |-> Absent] :
            v \in {None, PyInt(0), PyList(1)}}
    \cup {[kind |-> "object", val |-> Absent, message |-> m, style |-> s] :
            m \in MessageValues, s \in StyleValues}

EmptyDict == [kind |-> "object", val |-> Absent, message |-> Absent, style |-> Absent]

\* request.get_json(force=True, silent=True) or {}
GetJsonOrEmpty(b) ==
    CASE b.kind = "malformed" -> EmptyDict
      [] b.kind = "value" -> IF Truthy(b.val) THEN b ELSE EmptyDict
      [] OTHER -> b

\* dict.get(key) on the parsed object: None for a missing key
DictGet(v) == IF v.t = "absent" THEN None ELSE v

NoPrompt == [preamble |-> "", intensity |-> 0, tone |-> "", guardrails |-> "", format |-> ""]
NoDecode == [temperature |-> 0, max_tokens |-> 0]

\* api_chat from its entry to the completion call (lines 196-203):
\* exc is the exception that escapes, status 400 the early return,
\* status 0 means the handler goes on to the call
PreCall(b) ==
    LET data == GetJsonOrEmpty(b)
        msg == Or(DictGet(data.message), PyStr(<<>>))
        sty == PyIntOf(Or(DictGet(data.style), PyInt(0)))
        user_msg == Strip(msg.s)
        none == [exc |-> "none", status |-> 0, user_msg |-> <<>>, style |-> 0,
                 sys_prompt |-> NoPrompt, decode |-> NoDecode]
    IN  IF data.kind # "object" THEN [none EXCEPT !.exc = "AttributeError"]
        ELSE IF msg.t # "str" THEN [none EXCEPT !.exc = "AttributeError"]
        ELSE IF sty.exc # "none" THEN [none EXCEPT !.exc = sty.exc, !.user_msg = user_msg]
        ELSE IF user_msg = <<>>
             THEN [none EXCEPT !.status = 400, !.user_msg = user_msg, !.style = sty.val]
        ELSE [none EXCEPT !.user_msg = user_msg, !.style = sty.val,
                          !.sys_prompt = build_system_prompt(sty.val),
                          !.decode = decoding_params(sty.val)]

\* ------------------------------------------------------------- responses
NoResponse ==
    [status |-> 0, keys |-> {}, error |-> "", reply |-> "", model |-> "",
     temperature |-> 0, max_tokens |-> 0, style |-> 0]

\* jsonify({"error": text}), status
JsonError(status, text) ==
    [NoResponse EXCEPT !.status = status, !.keys = {"error"}, !.error = text]

\* the framework's own answer to an exception that escaped the view
FrameworkError == [NoResponse EXCEPT !.status = 500]

\* the json returned at lines 216-222
JsonReply(reply, model, dec, sty) ==
    [NoResponse EXCEPT !.status = 200,
        !.keys = {"reply", "model", "temperature", "max_tokens", "style"},
        !.reply = reply, !.model = model, !.temperature = dec.temperature,
        !.max_tokens = dec.max_tokens, !.style = sty]

\* an except clause that hides the error text
ExceptHandlerGeneric(e) == JsonError(500, "internal server error")

\* except Exception as e: return jsonify({"error": str(e)}), 500
ExceptHandler(e) == JsonError(500, e)

\* what the completion capability may do with one call
UpstreamResults ==
    {[kind |-> "text", text |-> "draft reply"],
     [kind |-> "raise", text |-> "Rate limit exceeded"],
     [kind |-> "nochoices", text |-> ""]}

NoResult == [kind |-> "none", text |-> ""]

\* lines 215-224 for one result of the call
AfterCall(res, model, dec, sty) ==
    CASE res.kind = "text" -> JsonReply(res.text, model, dec, sty)
      [] res.kind = "raise" -> ExceptHandler(res.text)
      [] OTHER -> ExceptHandler("list index out of range")

\* the arguments with the two messages in the wrong order
CallArgsSwapped(model, sys_prompt, user_msg, dec) ==
    [model |-> model,
     messages |-> <<[role |-> "user", content |-> user_msg],
                    [role |-> "system", content |-> sys_prompt]>>,
     temperature |-> dec.temperature, max_tokens |-> dec.max_tokens]

\* the keyword arguments of client.chat.completions.create (lines 206-214)
CallArgs(model, sys_prompt, user_msg, dec) ==
    [model |-> model,
     messages |-> <<[role |-> "system", content |-> sys_prompt],
                    [role |-> "user", content |-> user_msg]>>,
     temperature |-> dec.temperature, max_tokens |-> dec.max_tokens]

\* an assignment that lands in a module-level name shared by all requests
StoreGlobal(f, r, v) == [q \in DOMAIN f |-> v]

\* an assignment to a local name of the invocation serving r
StoreLocal(f, r, v) == [f EXCEPT ![r] = v]

\* ------------------------------------------------------------------ state
\* the invocations of api_chat the server may have in flight at once
Requests == {"r1", "r2"}

VARIABLES
    env,            \* the process environment
    phase,          \* "import", "aborted", "imported", "listening"
    client,         \* module-level OpenAI client
    DEFAULT_MODEL,  \* module-level model identifier
    pc,             \* per invocation: "idle", "calling", "done"
    body,           \* per invocation: the request body
    user_msg, style, sys_prompt, decode,   \* per invocation: locals of api_chat
    calls,          \* per invocation: the completion calls made, in order
    upstream,       \* per invocation: what the completion call did
    response,       \* per invocation: the HTTP response
    escaped,        \* per invocation: exception that left api_chat, or "none"
    mapper_arg, mapper_prompt, mapper_decode   \* a direct use of the mapper

config == <<env, phase, client, DEFAULT_MODEL>>
locals == <<user_msg, style, sys_prompt, decode>>
reqs == <<pc, body, locals, calls, upstream, response, escaped>>
mapper == <<mapper_arg, mapper_prompt, mapper_decode>>
vars == <<config, reqs, mapper>>

NoBody == [kind |-> "none", val |-> Absent, message |-> Absent, style |-> Absent]

RequestsIdle ==
    /\ pc = [r \in Requests |-> "idle"]
    /\ body = [r \in Requests |-> NoBody]
    /\ user_msg = [r \in Requests |-> <<>>]
    /\ style = [r \in Requests |-> 0]
    /\ sys_prompt = [r \in Requests |-> NoPrompt]
    /\ decode = [r \in Requests |-> NoDecode]
    /\ calls = [r \in Requests |-> <<>>]
    /\ upstream = [r \in Requests |-> NoResult]
    /\ response = [r \in Requests |-> NoResponse]
    /\ escaped = [r \in Requests |-> "none"]

MapperIdle ==
    /\ mapper_arg = 0
    /\ mapper_prompt = [done |-> FALSE, ret |-> NoPrompt, fallback |-> FALSE]
    /\ mapper_decode = [done |-> FALSE, ret |-> NoDecode]

Init ==
    /\ env \in Environments
    /\ phase = "import"
    /\ client = NoClient
    /\ DEFAULT_MODEL = ""
    /\ RequestsIdle
    /\ MapperIdle

\* ---------------------------------------------------------------- startup
\* module import, lines 27-33
ModuleInit ==
    /\ phase = "import"
    /\ IF KeyMissing(env.OPENAI_API_KEY)
       THEN /\ phase' = "aborted"
            /\ UNCHANGED <<client, DEFAULT_MODEL>>
       ELSE /\ client' = [made |-> TRUE, api_key |-> env.OPENAI_API_KEY.val]
            /\ DEFAULT_MODEL' = GetEnv(env.OPENAI_MODEL, "gpt-4o-mini")
            /\ phase' = "imported"
    /\ UNCHANGED <<env, reqs, mapper>>

\* the __main__ block, lines 227-230: app.run binds the port
RunServer ==
    /\ phase = "imported"
    /\ phase' = "listening"
    /\ UNCHANGED <<env, client, DEFAULT_MODEL, reqs, mapper>>

\* --------------------------------------------------------------- api_chat
\* a POST /api/chat arrives and api_chat runs up to its return, its
\* exception, or the start of the completion call
Receive(r, b) ==
    LET pre == PreCall(b)
    IN  /\ phase = "listening"
        /\ pc[r] = "idle"
        /\ body' = [body EXCEPT ![r] = b]
        /\ user_msg' = StoreLocal(user_msg, r, pre.user_msg)
        /\ style' = StoreLocal(style, r, pre.style)
        /\ sys_prompt' = StoreLocal(sys_prompt, r, pre.sys_prompt)
        /\ decode' = StoreLocal(decode, r, pre.decode)
        /\ IF pre.exc # "none"
           THEN /\ escaped' = [escaped EXCEPT ![r] = pre.exc]
                /\ response' = [response EXCEPT ![r] = FrameworkError]
                /\ pc' = [pc EXCEPT ![r] = "done"]
                /\ UNCHANGED calls
           ELSE IF pre.status = 400
           THEN /\ response' = [response EXCEPT ![r] = JsonError(400, "message is required")]
                /\ pc' = [pc EXCEPT ![r] = "done"]
                /\ UNCHANGED <<calls, escaped>>
           ELSE /\ calls' = [calls EXCEPT ![r] =
                        Append(@, CallArgs(DEFAULT_MODEL, pre.sys_prompt,
                                           pre.user_msg, pre.decode))]
                /\ pc' = [pc EXCEPT ![r] = "calling"]
                /\ UNCHANGED <<response, escaped>>
        /\ UNCHANGED <<config, upstream, mapper>>

\* the completion call returns or raises; api_chat answers (lines 215-224)
UpstreamReturn(r, res) ==
    /\ pc[r] = "calling"
    /\ upstream' = [upstream EXCEPT ![r] = res]
    /\ response' = [response EXCEPT ![r] =
                        AfterCall(res, DEFAULT_MODEL, decode[r], style[r])]
    /\ pc' = [pc EXCEPT ![r] = "done"]
    /\ UNCHANGED <<config, body, locals, calls, escaped, mapper>>

\* the response is sent; the worker is free for the next request
Finish(r) ==
    /\ pc[r] = "done"
    /\ pc' = [pc EXCEPT ![r] = "idle"]
    /\ body' = [body EXCEPT ![r] = NoBody]
    /\ user_msg' = [user_msg EXCEPT ![r] = <<>>]
    /\ style' = [style EXCEPT ![r] = 0]
    /\ sys_prompt' = [sys_prompt EXCEPT ![r] = NoPrompt]
    /\ decode' = [decode EXCEPT ![r] = NoDecode]
    /\ calls' = [calls EXCEPT ![r] = <<>>]
    /\ upstream' = [upstream EXCEPT ![r] = NoResult]
    /\ response' = [response EXCEPT ![r] = NoResponse]
    /\ escaped' = [escaped EXCEPT ![r] = "none"]
    /\ UNCHANGED <<config, mapper>>

Next ==
    \/ ModuleInit
    \/ RunServer
    \/ \E r \in Requests, b \in Bodies : Receive(r, b)
    \/ \E r \in Requests, res \in UpstreamResults : UpstreamReturn(r, res)
    \/ \E r \in Requests : Finish(r)

Spec == Init /\ [][Next]_vars

\* ------------------------------------------- the parameter mapper, alone
MapperInputs == (0 - MapperSpan)..(10 + MapperSpan)

MapperInit ==
    /\ env = [OPENAI_API_KEY |-> EnvStr("sk-test"), OPENAI_MODEL |-> EnvUnset]
    /\ phase = "import"
    /\ client = NoClient
    /\ DEFAULT_MODEL = ""
    /\ RequestsIdle
    /\ mapper_arg \in MapperInputs
    /\ mapper_prompt = [done |-> FALSE, ret |-> NoPrompt, fallback |-> FALSE]
    /\ mapper_decode = [done |-> FALSE, ret |-> NoDecode]

ApplyBuildSystemPrompt ==
    /\ ~mapper_prompt.done
    /\ mapper_prompt' = [done |-> TRUE, ret |-> build_system_prompt(mapper_arg),
                         fallback |-> BuildPromptRun(mapper_arg).fallback]
    /\ UNCHANGED <<config, reqs, mapper_arg, mapper_decode>>

ApplyDecodingParams ==
    /\ ~mapper_decode.done
    /\ mapper_decode' = [done |-> TRUE, ret |-> decoding_params(mapper_arg)]
    /\ UNCHANGED <<config, reqs, mapper_arg, mapper_prompt>>

MapperNext == ApplyBuildSystemPrompt \/ ApplyDecodingParams

MapperSpec == MapperInit /\ [][MapperNext]_vars

\* ------------------------------------------------------------ properties
\* clamp(i, 0, 10) as the specification states it
ClampTo0_10(i) == IF i < 0 THEN 0 ELSE IF i > 10 THEN 10 ELSE i

\* the message of a body is missing, empty, or whitespace-only
MessageBlank(b) ==
    \/ b.kind = "malformed"
    \/ /\ b.kind = "object"
       /\ \/ b.message.t = "absent"
          \/ b.message.t = "str" /\ \A i \in 1..Len(b.message.s) : b.message.s[i] = " "

\* the message of a body is a string with a character that is no whitespace
MessagePresent(b) ==
    /\ b.kind = "object"
    /\ b.message.t = "str"
    /\ \E i \in 1..Len(b.message.s) : b.message.s[i] # " "

\* the style of a body is missing, null, or no integer
StyleNotInteger(b) ==
    \/ b.style.t \in {"absent", "none", "list"}
    \/ b.style.t = "float" /\ b.style.n % 10 # 0
    \/ b.style.t = "str" /\ ~StrIsInt(b.style.s)

\* the body gets past the checks of api_chat (lines 196-200)
Validated(b) == PreCall(b).exc = "none" /\ PreCall(b).status = 0

\* the integer api_chat reads from the style field of a validated body
RequestIntensity(b) == PyIntOf(Or(DictGet(b.style), PyInt(0))).val

ConfiguredModel == GetEnv(env.OPENAI_MODEL, "gpt-4o-mini")

Started(r) == pc[r] \in {"calling", "done"}

\* C1: a request whose message is missing, empty or whitespace-only is
\* answered 400 {"error": "message is required"} whatever its style field
\* holds, and no completion call is made.
C1_BlankMessageAnswers400 ==
    \A r \in Requests :
        (pc[r] = "done" /\ MessageBlank(body[r])) =>
            /\ escaped[r] = "none"
            /\ response[r] = JsonError(400, "message is required")
            /\ calls[r] = <<>>

\* C2: with a non-empty message, a style that is missing, null or no
\* integer is treated as intensity 0: the call carries the intensity-0
\* prompt, temperature 0.20 and max_tokens 256, and the request does not
\* fail on account of its style.
C2_NonIntegerStyleIsZero ==
    \A r \in Requests :
        (Started(r) /\ MessagePresent(body[r]) /\ StyleNotInteger(body[r])) =>
            /\ escaped[r] = "none"
            /\ style[r] = 0
            /\ Len(calls[r]) = 1
            /\ calls[r][1].messages[1].content = build_system_prompt(0)
            /\ calls[r][1].temperature = 20
            /\ calls[r][1].max_tokens = 256

\* C3: every request ends in a response built by api_chat: 200 with the
\* reply JSON, or 400 or 500 with {"error": ...}; no exception leaves
\* api_chat.
C3_NoExceptionEscapes ==
    \A r \in Requests :
        pc[r] = "done" =>
            /\ escaped[r] = "none"
            /\ \/ /\ response[r].status = 200
                  /\ response[r].keys = {"reply", "model", "temperature", "max_tokens", "style"}
               \/ /\ response[r].status \in {400, 500}
                  /\ response[r].keys = {"error"}

\* the text of the error a failed completion call ends in
UnderlyingError(res) == IF res.kind = "raise" THEN res.text ELSE "list index out of range"

\* C4: when the completion call of a validated request fails, the answer
\* is 500 {"error": <text of the underlying error>} without a reply field,
\* after exactly one call, made with the configured model.
C4_UpstreamFailureIs500AfterOneCall ==
    \A r \in Requests :
        (pc[r] = "done" /\ upstream[r].kind \in {"raise", "nochoices"}) =>
            /\ response[r].status = 500
            /\ response[r].keys = {"error"}
            /\ response[r].error = UnderlyingError(upstream[r])
            /\ Len(calls[r]) = 1
            /\ calls[r][1].model = ConfiguredModel

C4_Witness ==
    \E r \in Requests :
        /\ pc[r] = "done"
        /\ upstream[r] = [kind |-> "raise", text |-> "Rate limit exceeded"]
        /\ response[r].status = 500
        /\ response[r].error = "Rate limit exceeded"

\* C5: a validated request makes exactly one completion call before it is
\* answered; the call carries the configured model, a system message with
\* the prompt built for the request's intensity followed by a user message
\* with the trimmed input, and the temperature and max_tokens the mapper
\* gives for that intensity (0.20 and 256 at 0, 1.00 and 512 at 10).
C5_OneCallWithMappedArguments ==
    \A r \in Requests :
        (Started(r) /\ Validated(body[r])) =>
            LET i == RequestIntensity(body[r])
            IN  /\ Len(calls[r]) = 1
                /\ calls[r][1].model = ConfiguredModel
                /\ Len(calls[r][1].messages) = 2
                /\ calls[r][1].messages[1] =
                        [role |-> "system", content |-> build_system_prompt(i)]
                /\ calls[r][1].messages[2] =
                        [role |-> "user", content |-> Strip(body[r].message.s)]
                /\ calls[r][1].temperature = decoding_params(i).temperature
                /\ calls[r][1].max_tokens = decoding_params(i).max_tokens
                /\ i = 0 => calls[r][1].temperature = 20 /\ calls[r][1].max_tokens = 256
                /\ i = 10 => calls[r][1].temperature = 100 /\ calls[r][1].max_tokens = 512

C5_Witness ==
    \E r \in Requests :
        /\ pc[r] = "calling"
        /\ body[r].message = PyStr(<<" ", "h", "i", " ">>)
        /\ body[r].style = PyInt(10)
        /\ calls[r][1].messages[2].content = <<"h", "i">>
        /\ calls[r][1].temperature = 100
        /\ calls[r][1].max_tokens = 512

\* C6: for every integer i, with c = clamp(i, 0, 10), decoding_params(i)
\* gives temperature 0.2 + 0.08 c and max_tokens 256 if c <= 5 else 512,
\* and build_system_prompt(i) = build_system_prompt(c); so the temperature
\* never decreases as i grows, stays within [0.20, 1.00], and max_tokens
\* is 256 or 512.
C6_MapperClampsThenFollowsFormula ==
    LET c == ClampTo0_10(mapper_arg)
    IN  /\ mapper_decode.done =>
            /\ mapper_decode.ret.temperature = 20 + 8 * c
            /\ mapper_decode.ret.max_tokens = IF c <= 5 THEN 256 ELSE 512
            /\ mapper_decode.ret.temperature \in 20..100
            /\ mapper_decode.ret.max_tokens \in {256, 512}
            /\ \A j \in MapperInputs :
                  j <= mapper_arg =>
                      decoding_params(j).temperature <= mapper_decode.ret.temperature
        /\ mapper_prompt.done => mapper_prompt.ret = build_system_prompt(c)

C6_Witness ==
    /\ mapper_arg > 10
    /\ mapper_decode.done
    /\ mapper_prompt.done
    /\ mapper_decode.ret = [temperature |-> 100, max_tokens |-> 512]

\* C7: in every 200 response the style field is an integer in 0..10, the
\* clamped intensity that was written into the system prompt and that the
\* echoed temperature and max_tokens were computed from.
C7_ResponseStyleIsClampedIntensity ==
    \A r \in Requests :
        (pc[r] = "done" /\ response[r].status = 200) =>
            /\ response[r].style \in 0..10
            /\ response[r].style = calls[r][1].messages[1].content.intensity
            /\ response[r].temperature = 20 + 8 * response[r].style

\* C8: for every integer i the system prompt holds the number
\* clamp(i, 0, 10), the tone text of that table entry and the guardrail
\* clause; the lookup never falls back to entry 5, whose tone appears only
\* when clamp(i, 0, 10) = 5.
C8_PromptHoldsClampedNumberToneGuardrails ==
    mapper_prompt.done =>
        LET c == ClampTo0_10(mapper_arg)
        IN  /\ mapper_prompt.ret.intensity = c
            /\ mapper_prompt.ret.tone = tone_table[c]
            /\ mapper_prompt.ret.guardrails = guardrails
            /\ ~mapper_prompt.fallback
            /\ mapper_prompt.ret.tone = tone_table[5] => c = 5

C8_Witness ==
    /\ mapper_arg < 0
    /\ mapper_prompt.done
    /\ mapper_prompt.ret.intensity = 0
    /\ mapper_prompt.ret.tone = tone_table[0]

\* C9: with OPENAI_API_KEY absent or empty the process never gets past
\* module import: no client is built, the server never listens, no request
\* is handled and no completion call is made.
C9_NoCredentialNeverListens ==
    (~env.OPENAI_API_KEY.set \/ env.OPENAI_API_KEY.val = "") =>
        /\ phase \in {"import", "aborted"}
        /\ ~client.made
        /\ \A r \in Requests : pc[r] = "idle" /\ calls[r] = <<>>

C9_Witness ==
    /\ env.OPENAI_API_KEY = EnvStr("")
    /\ phase = "aborted"

\* what api_chat does with body b when it is the only request served and
\* its completion call ends in res
ServedAlone(b, res) ==
    LET pre == PreCall(b)
    IN  IF pre.exc # "none"
        THEN [calls |-> <<>>, escaped |-> pre.exc, response |-> FrameworkError]
        ELSE IF pre.status = 400
        THEN [calls |-> <<>>, escaped |-> "none",
              response |-> JsonError(400, "message is required")]
        ELSE [calls |-> <<CallArgs(ConfiguredModel, pre.sys_prompt, pre.user_msg, pre.decode)>>,
              escaped |-> "none",
              response |-> AfterCall(res, ConfiguredModel, pre.decode, pre.style)]

\* C10: under any interleaving of requests, the client and the model
\* identifier stay what startup made them, and each request's call
\* arguments and response are those it gets when served alone with the
\* same body and the same result of its own call.
C10_RequestsAreIndependent ==
    /\ phase = "listening" =>
          /\ client = [made |-> TRUE, api_key |-> env.OPENAI_API_KEY.val]
          /\ DEFAULT_MODEL = ConfiguredModel
    /\ \A r \in Requests :
          Started(r) =>
              /\ calls[r] = ServedAlone(body[r], upstream[r]).calls
              /\ escaped[r] = ServedAlone(body[r], upstream[r]).escaped
              /\ pc[r] = "done" => response[r] = ServedAlone(body[r], upstream[r]).response

C10_Witness ==
    /\ pc["r1"] = "done"
    /\ response["r1"].status = 200
    /\ pc["r2"] = "calling"
    /\ style["r1"] # style["r2"]
    /\ body["r1"].message # body["r2"].message
    /\ calls["r1"] # calls["r2"]
====
